---- MODULE Spec2Model ----
(***************************************************************************)
(* kiwi/datatypes.py: the converter registry, the per-kind converters and  *)
(* format_price.                                                           *)
(*                                                                         *)
(* Text is a sequence of one-character strings ("1,5" is <<"1",",","5">>), *)
(* positions are 0-based as in Python, and -1 means "not found".           *)
(***************************************************************************)
EXTENDS Integers, Sequences, FiniteSets, TLC

VARIABLES
    lc,           \* the active locale: what locale.localeconv() returns (line 37)
    converters,   \* ConverterRegistry._converters: kind tag -> converter instance
    call,         \* the call in progress / last made: operation and arguments
    result,       \* its outcome: a returned value or a raised exception
    invoked,      \* the converter methods the registry invoked during that call
    pc,           \* format_price: position in the function body
    value,        \* format_price: parameter value
    symbol,       \* format_price: parameter symbol
    frac_digits,  \* format_price local (after the 127 patch)
    cs_precedes,  \* format_price local
    sep_by_space, \* format_price local
    sign,         \* format_price local
    groups,       \* format_price local: reversed copy of mon_grouping
    group,        \* format_price local: current group size
    intparts,     \* format_price local: list of digit groups
    intpart,      \* format_price local: digits not yet grouped
    retval        \* format_price local: text built so far / returned

regVars   == <<converters, call, result, invoked>>
priceVars == <<pc, value, symbol, frac_digits, cs_precedes, sep_by_space, sign,
               groups, group, intparts, intpart, retval>>
vars      == <<lc, converters, call, result, invoked, pc, value, symbol,
               frac_digits, cs_precedes, sep_by_space, sign, groups, group,
               intparts, intpart, retval>>

----------------------------------------------------------------------------
(* Python str primitives used by the source                                *)

Digit == <<"0", "1", "2", "3", "4", "5", "6", "7", "8", "9">>

IsDigit(c) == \E d \in 1..10 : Digit[d] = c

DigitVal(c) == (CHOOSE d \in 1..10 : Digit[d] = c) - 1

Min(a, b) == IF a < b THEN a ELSE b

Max(a, b) == IF a > b THEN a ELSE b

\* s[i:] for i >= 0
From(s, i) == SubSeq(s, Min(i, Len(s)) + 1, Len(s))

\* s[:i] for i >= 0
Upto(s, i) == SubSeq(s, 1, Min(i, Len(s)))

\* s[-n:] for n >= 0; Python reads -0 as 0, so s[-0:] is the whole of s
LastN(s, n) == IF n = 0 THEN s ELSE From(s, Max(Len(s) - n, 0))

\* s[:-n] for n >= 0; s[:-0] is s[:0], the empty text
DropLastN(s, n) == IF n = 0 THEN <<>> ELSE Upto(s, Max(Len(s) - n, 0))

StartsAt(s, sub, i) ==
    /\ i + Len(sub) <= Len(s)
    /\ \A k \in 1..Len(sub) : s[i + k] = sub[k]

\* s.find(sub, start)
Find(s, sub, start) ==
    LET hits == {i \in start..Len(s) : StartsAt(s, sub, i)}
    IN  IF hits = {} THEN -1 ELSE CHOOSE i \in hits : \A j \in hits : i <= j

RECURSIVE CountFrom(_, _, _)
CountFrom(s, sub, start) ==
    LET i == Find(s, sub, start)
    IN  IF i = -1 THEN 0 ELSE 1 + CountFrom(s, sub, i + Len(sub))

\* s.count(sub): non-overlapping occurrences
Count(s, sub) == IF sub = <<>> THEN Len(s) + 1 ELSE CountFrom(s, sub, 0)

RECURSIVE ReplaceFrom(_, _, _, _)
ReplaceFrom(s, old, new, start) ==
    LET i == Find(s, old, start)
    IN  IF i = -1 THEN From(s, start)
        ELSE SubSeq(s, start + 1, i) \o new \o ReplaceFrom(s, old, new, i + Len(old))

\* s.replace(old, new) for a non-empty old
Replace(s, old, new) == ReplaceFrom(s, old, new, 0)

RECURSIVE Join(_, _)
\* sep.join(parts)
Join(sep, parts) ==
    IF parts = <<>> THEN <<>>
    ELSE IF Len(parts) = 1 THEN parts[1]
    ELSE parts[1] \o sep \o Join(sep, Tail(parts))

RECURSIVE Concat(_)
Concat(parts) == IF parts = <<>> THEN <<>> ELSE parts[1] \o Concat(Tail(parts))

RECURSIVE NatStr(_)
\* str(n) for n >= 0
NatStr(n) == IF n < 10 THEN <<Digit[n + 1]>> ELSE NatStr(n \div 10) \o <<Digit[(n % 10) + 1]>>

\* str(n) / '%d' % n
IntStr(n) == IF n < 0 THEN <<"-">> \o NatStr(-n) ELSE NatStr(n)

RECURSIVE DigitsVal(_)
\* the number a text of digits denotes
DigitsVal(s) == IF s = <<>> THEN 0 ELSE 10 * DigitsVal(Upto(s, Len(s) - 1)) + DigitVal(s[Len(s)])

RECURSIVE Pow10(_)
Pow10(k) == IF k = 0 THEN 1 ELSE 10 * Pow10(k - 1)

Abs(n) == IF n < 0 THEN -n ELSE n

----------------------------------------------------------------------------
(* Values: a runtime type tag and a payload.  n/e: a number n / 10^e       *)
(* (ints, bools and dates have e = 0), s: text, t: the type a type object  *)
(* denotes.                                                                *)

Val(type, n, e, s, t) == [type |-> type, n |-> n, e |-> e, s |-> s, t |-> t]

IntV(n)   == Val("int", n, 0, <<>>, "")
BoolV(b)  == Val("bool", IF b THEN 1 ELSE 0, 0, <<>>, "")
StrV(s)   == Val("str", 0, 0, s, "")
DateV(y, m, d) == Val("date", y * 10000 + m * 100 + d, 0, <<>>, "")
ObjV(id)  == Val("instance", id, 0, <<>>, "")
TypeV(t)  == Val("type", 0, 0, <<>>, t)
None      == Val("NoneType", 0, 0, <<>>, "")

RECURSIVE Norm(_, _)
\* m / 10^e without trailing fractional zeros: equal numbers, equal records
Norm(m, e) == IF e > 0 /\ m % 10 = 0 THEN Norm(m \div 10, e - 1) ELSE <<m, e>>

FloatV(m, e) == Val("float", Norm(m, e)[1], Norm(m, e)[2], <<>>, "")

Returned(v) == [status |-> "returned", exc |-> "", msg |-> "", val |-> v]

Raised(exc, msg) == [status |-> "raised", exc |-> exc, msg |-> msg, val |-> None]

----------------------------------------------------------------------------
(* The locale: locale.localeconv(), locale.getlocale(LC_MONETARY) and      *)
(* nl_langinfo(D_FMT) of the active locale.                                *)

\* the "C" locale
CLocale ==
    [name |-> "C", thousands_sep |-> <<>>, decimal_point |-> <<".">>, grouping |-> <<>>,
     mon_grouping |-> <<>>, mon_thousands_sep |-> <<>>, mon_decimal_point |-> <<>>,
     currency_symbol |-> <<>>, frac_digits |-> 127,
     p_cs_precedes |-> 1, n_cs_precedes |-> 1, p_sep_by_space |-> 0, n_sep_by_space |-> 0,
     positive_sign |-> <<>>, negative_sign |-> <<>>,
     d_fmt |-> <<"%m", "/", "%d", "/", "%y">>]

EnLocale ==
    [CLocale EXCEPT !.name = "en_US", !.thousands_sep = <<",">>, !.grouping = <<3, 3, 0>>,
                    !.mon_grouping = <<3, 3, 0>>, !.mon_thousands_sep = <<",">>,
                    !.mon_decimal_point = <<".">>, !.currency_symbol = <<"$">>,
                    !.frac_digits = 2, !.negative_sign = <<"-">>]

DeLocale ==
    [EnLocale EXCEPT !.name = "de_DE", !.thousands_sep = <<".">>, !.decimal_point = <<",">>,
                     !.mon_thousands_sep = <<".">>, !.mon_decimal_point = <<",">>,
                     !.currency_symbol = <<"E">>, !.p_cs_precedes = 0, !.n_cs_precedes = 0,
                     !.p_sep_by_space = 1, !.n_sep_by_space = 1,
                     !.d_fmt = <<"%d", ".", "%m", ".", "%Y">>]

\* no thousands separator reported, decimal comma (the case of the HACK at line 141)
PtLocale ==
    [DeLocale EXCEPT !.name = "pt_BR", !.thousands_sep = <<>>, !.grouping = <<>>,
                     !.currency_symbol = <<"R", "$">>,
                     !.d_fmt = <<"%d", "/", "%m", "/", "%Y">>]

\* a snapshot not yet taken (a converter that keeps none)
NoSnapshot == [name |-> ""]

NumericLocales == {CLocale, EnLocale, DeLocale, PtLocale}

----------------------------------------------------------------------------
(* float(text), int(text), '%.Nf' % value, locale.format                   *)

Sign(s) == IF s # <<>> /\ s[1] = "-" THEN -1 ELSE 1

Unsigned(s) == IF s # <<>> /\ s[1] \in {"-", "+"} THEN Tail(s) ELSE s

\* int(text) succeeds: an optional sign and at least one digit (of the
\* characters the model's texts are made of)
IsIntLiteral(s) ==
    /\ Unsigned(s) # <<>>
    /\ \A i \in 1..Len(Unsigned(s)) : IsDigit(Unsigned(s)[i])

PyInt(s) == IntV(Sign(s) * DigitsVal(Unsigned(s)))

\* float(text) succeeds: an optional sign, digits with at most one "." among
\* them, at least one digit
IsFloatLiteral(s) ==
    LET b == Unsigned(s)
    IN  /\ \A i \in 1..Len(b) : IsDigit(b[i]) \/ b[i] = "."
        /\ Count(b, <<".">>) <= 1
        /\ \E i \in 1..Len(b) : IsDigit(b[i])

PyFloat(s) ==
    LET b   == Unsigned(s)
        dot == Find(b, <<".">>, 0)
        ip  == IF dot = -1 THEN b ELSE Upto(b, dot)
        fp  == IF dot = -1 THEN <<>> ELSE From(b, dot + 1)
    IN  FloatV(Sign(s) * DigitsVal(ip \o fp), Len(fp))

RECURSIVE ZeroPad(_, _)
ZeroPad(s, width) == IF Len(s) >= width THEN s ELSE ZeroPad(<<"0">> \o s, width)

\* ('%%.%sf' % nd) % v for the number v.n / 10^v.e: rounded to nd places, a tie
\* going to the even digit (the model's values with a tie are exact in binary)
FormatF(v, nd) ==
    LET a  == Abs(v.n)
        d  == Pow10(IF v.e > nd THEN v.e - nd ELSE 0)
        q0 == IF v.e > nd THEN a \div d ELSE a * Pow10(nd - v.e)
        r  == IF v.e > nd THEN a % d ELSE 0
        q  == IF 2 * r > d \/ (2 * r = d /\ q0 % 2 = 1) THEN q0 + 1 ELSE q0
        ip == NatStr(q \div Pow10(nd))
        fp == ZeroPad(NatStr(q % Pow10(nd)), nd)
    IN  (IF v.n < 0 THEN <<"-">> ELSE <<>>) \o ip \o (IF nd = 0 THEN <<>> ELSE <<".">> \o fp)

RECURSIVE GroupIntervals(_, _, _, _)
\* locale._group: the digits of s cut from the right at the locale's grouping
\* intervals (0: repeat the last interval, 127: stop grouping)
GroupIntervals(s, grouping, last, acc) ==
    IF grouping = <<>> \/ grouping[1] = 127 THEN
        [left |-> <<>>, parts |-> (IF s = <<>> THEN <<>> ELSE <<s>>) \o acc]
    ELSE IF s = <<>> \/ ~IsDigit(s[Len(s)]) THEN
        [left |-> s, parts |-> acc]
    ELSE LET interval == IF grouping[1] = 0 THEN last ELSE grouping[1]
             rest     == IF grouping[1] = 0 THEN grouping ELSE Tail(grouping)
         IN  GroupIntervals(DropLastN(s, interval), rest, interval,
                            <<LastN(s, interval)>> \o acc)

LocaleGroup(conv, s) ==
    IF conv.grouping = <<>> THEN s
    ELSE LET g == GroupIntervals(s, conv.grouping, 0, <<>>)
         IN  g.left \o Join(conv.thousands_sep, g.parts)

\* lformat('%d', n) = locale.format('%d', n, 1)
lformatInt(conv, n) == LocaleGroup(conv, IntStr(n))

\* lformat('%f', v): six decimals, the integer part grouped, the locale's
\* decimal point
lformatFloat(conv, v) ==
    LET t   == FormatF(v, 6)
        dot == Find(t, <<".">>, 0)
    IN  LocaleGroup(conv, Upto(t, dot)) \o conv.decimal_point \o From(t, dot + 1)

----------------------------------------------------------------------------
(* The converters (lines 85-209)                                           *)

Kinds == {"str", "int", "bool", "float", "date", "object"}

\* type.__name__
TypeName(kind) ==
    CASE kind = "str"    -> <<"s", "t", "r">>
      [] kind = "int"    -> <<"i", "n", "t">>
      [] kind = "bool"   -> <<"b", "o", "o", "l">>
      [] kind = "float"  -> <<"f", "l", "o", "a", "t">>
      [] kind = "date"   -> <<"d", "a", "t", "e">>
      [] kind = "object" -> <<"o", "b", "j", "e", "c", "t">>

ConverterClasses ==
    {"StringConverter", "IntConverter", "BoolConverter", "FloatConverter",
     "DateConverter", "ObjectConverter"}

\* the class attribute `type` of each converter class
ConverterType(cls) ==
    CASE cls = "StringConverter" -> "str"
      [] cls = "IntConverter"    -> "int"
      [] cls = "BoolConverter"   -> "bool"
      [] cls = "FloatConverter"  -> "float"
      [] cls = "DateConverter"   -> "date"
      [] cls = "ObjectConverter" -> "object"

\* converter_type(): the instance a class constructs under the locale conv.
\* as_string / from_string: whether the attribute is a method (TRUE) or None.
New(cls, conv) ==
    [cls |-> cls, type |-> ConverterType(cls),
     as_string |-> cls # "ObjectConverter", from_string |-> cls # "ObjectConverter",
     locale_dictionary |-> IF cls = "FloatConverter" THEN conv ELSE NoSnapshot,
     format |-> IF cls = "DateConverter" THEN conv.d_fmt ELSE <<>>]

\* isinstance(v, kind): bool is a subclass of int, everything is an object
IsInstance(v, kind) ==
    \/ kind = "object"
    \/ v.type = kind
    \/ (v.type = "bool" /\ kind = "int")

ValidationError == "ValidationError"

MsgInteger  == "This field requires an integer number"
MsgMultiple == "You have more than one decimal separator"
MsgOrder    == "The decimal separator is to the left of the thousand separator"
MsgNumber   == "This field requires a number"

RECURSIVE StrfTime(_, _)
\* value.strftime(format) for a format of %d %m %y %Y directives and literals
StrfTime(format, v) ==
    IF format = <<>> THEN <<>>
    ELSE LET f == format[1]
             y == v.n \div 10000
             m == (v.n \div 100) % 100
             d == v.n % 100
             t == CASE f = "%d" -> ZeroPad(NatStr(d), 2)
                    [] f = "%m" -> ZeroPad(NatStr(m), 2)
                    [] f = "%y" -> ZeroPad(NatStr(y % 100), 2)
                    [] f = "%Y" -> ZeroPad(NatStr(y), 4)
                    [] OTHER    -> <<f>>
         IN  t \o StrfTime(Tail(format), v)

\* variant: the sign of the text is lost
IntFromStringUnsigned(text) ==
    IF IsIntLiteral(text) THEN Returned(IntV(DigitsVal(Unsigned(text))))
    ELSE Raised(ValidationError, MsgInteger)

\* IntConverter.from_string
IntFromString(text) ==
    IF IsIntLiteral(text) THEN Returned(PyInt(text))
    ELSE Raised(ValidationError, MsgInteger)

Upper(c) ==
    CASE c = "t" -> "T" [] c = "r" -> "R" [] c = "u" -> "U" [] c = "e" -> "E"
      [] c = "f" -> "F" [] c = "a" -> "A" [] c = "l" -> "L" [] c = "s" -> "S"
      [] OTHER -> c

\* BoolConverter.from_string with the default default_value
BoolFromString(text) ==
    LET up == [i \in 1..Len(text) |-> Upper(text[i])]
    IN  IF up \in {<<"T", "R", "U", "E">>, <<"1">>} THEN Returned(BoolV(TRUE))
        ELSE IF up \in {<<"F", "A", "L", "S", "E">>, <<"0">>} THEN Returned(BoolV(FALSE))
        ELSE Returned(BoolV(TRUE))

\* variant: only the first thousands separator is compared
ThLoopFirstOnly(text, th_sep, dec_pos, th_pos) == th_pos # -1 /\ dec_pos < th_pos

RECURSIVE ThLoop(_, _, _, _)
\* the while loop of lines 159-164: TRUE when it raises
ThLoop(text, th_sep, dec_pos, th_pos) ==
    IF th_pos = -1 THEN FALSE
    ELSE IF dec_pos < th_pos THEN TRUE
    ELSE ThLoop(text, th_sep, dec_pos, Find(text, th_sep, th_pos + 1))

\* variant: the thousands separators are left in the text
StripDecimalOnly(text, th_sep, dec_sep) == Replace(text, dec_sep, <<".">>)

\* lines 165-166
StripSeparators(text, th_sep, dec_sep) ==
    Replace(Replace(text, th_sep, <<>>), dec_sep, <<".">>)

\* variant: the separators are replaced without the checks of lines 148-164
FloatFromStringNoChecks(c, text) ==
    LET dec_sep  == c.locale_dictionary.decimal_point
        th_sep   == IF c.locale_dictionary.thousands_sep = <<>> THEN <<".">>
                    ELSE c.locale_dictionary.thousands_sep
        stripped == StripSeparators(text, th_sep, dec_sep)
    IN  IF IsFloatLiteral(stripped) THEN Returned(PyFloat(stripped))
        ELSE Raised(ValidationError, MsgNumber)

\* FloatConverter.from_string
FloatFromString(c, text) ==
    LET dec_sep       == c.locale_dictionary.decimal_point
        th_sep        == IF c.locale_dictionary.thousands_sep = <<>> THEN <<".">>
                         ELSE c.locale_dictionary.thousands_sep
        th_sep_count  == Count(text, th_sep)
        dec_sep_count == Count(text, dec_sep)
        stripped      == StripSeparators(text, th_sep, dec_sep)
    IN  IF (th_sep_count > 0 \/ dec_sep_count > 0) /\ dec_sep_count > 1 THEN
            Raised(ValidationError, MsgMultiple)
        ELSE IF /\ th_sep_count > 0 /\ dec_sep_count > 0
                /\ ThLoop(text, th_sep, Find(text, dec_sep, 0), Find(text, th_sep, 0)) THEN
            Raised(ValidationError, MsgOrder)
        ELSE IF IsFloatLiteral(stripped) THEN Returned(PyFloat(stripped))
        ELSE Raised(ValidationError, MsgNumber)

\* c.as_string(data) with the default format; conv is the active locale,
\* which lformat reads at the time of the call
ConverterAsString(c, data, conv) ==
    CASE c.cls = "StringConverter" -> Returned(StrV(data.s))
      [] c.cls = "IntConverter"    -> Returned(StrV(lformatInt(conv, data.n)))
      [] c.cls = "BoolConverter"   -> Returned(TypeV("str"))
      [] c.cls = "FloatConverter"  -> Returned(StrV(lformatFloat(conv, data)))
      [] c.cls = "DateConverter"   -> Returned(StrV(StrfTime(c.format, data)))

\* c.from_string(data) for a text data (DateConverter.from_string, which is
\* time.strptime, is not modelled: no from_string call is drawn for dates)
ConverterFromString(c, data) ==
    CASE c.cls = "StringConverter" -> Returned(StrV(data.s))
      [] c.cls = "IntConverter"    -> IntFromString(data.s)
      [] c.cls = "BoolConverter"   -> BoolFromString(data.s)
      [] c.cls = "FloatConverter"  -> FloatFromString(c, data.s)

----------------------------------------------------------------------------
(* ConverterRegistry (lines 42-79).  Each operation gives its outcome and  *)
(* the converter methods it invoked.                                       *)

Outcome(out, inv) == [out |-> out, invoked |-> inv]

NoConverters == [k \in {} |-> New("ObjectConverter", CLocale)]

\* variant: a kind already registered keeps its converter
RegistryAddKeepFirst(convs, cls, conv) ==
    LET c == New(cls, conv)
    IN  IF c.type \in DOMAIN convs THEN convs
        ELSE [k \in DOMAIN convs \cup {c.type} |-> IF k = c.type THEN c ELSE convs[k]]

\* ConverterRegistry.add
RegistryAdd(convs, cls, conv) ==
    LET c == New(cls, conv)
    IN  [k \in DOMAIN convs \cup {c.type} |-> IF k = c.type THEN c ELSE convs[k]]

\* variant: no assertion on the type of data
RegistryAsStringUnchecked(convs, converter_type, data, conv) ==
    IF converter_type \notin DOMAIN convs THEN Outcome(Raised("KeyError", ""), <<>>)
    ELSE LET c == convs[converter_type]
         IN  IF ~c.as_string THEN Outcome(Returned(data), <<>>)
             ELSE Outcome(ConverterAsString(c, data, conv), <<<<c.cls, "as_string">>>>)

\* ConverterRegistry.as_string
RegistryAsString(convs, converter_type, data, conv) ==
    IF converter_type \notin DOMAIN convs THEN Outcome(Raised("KeyError", ""), <<>>)
    ELSE LET c == convs[converter_type]
         IN  IF ~c.as_string THEN Outcome(Returned(data), <<>>)
             ELSE IF ~IsInstance(data, c.type) THEN
                 Outcome(Raised("AssertionError", "data must be of the converter's type"), <<>>)
             ELSE Outcome(ConverterAsString(c, data, conv), <<<<c.cls, "as_string">>>>)

\* ConverterRegistry.from_string
RegistryFromString(convs, converter_type, data) ==
    IF converter_type \notin DOMAIN convs THEN Outcome(Raised("KeyError", ""), <<>>)
    ELSE LET c == convs[converter_type]
         IN  IF ~c.from_string THEN Outcome(Returned(data), <<>>)
             ELSE Outcome(ConverterFromString(c, data), <<<<c.cls, "from_string">>>>)

\* variant: a name that is not found is an error
RegistryStrToTypeRaises(convs, name) ==
    LET found == {k \in DOMAIN convs : TypeName(convs[k].type) = name}
    IN  IF found = {} THEN {Raised("KeyError", "")}
        ELSE {Returned(TypeV(convs[k].type)) : k \in found}

\* ConverterRegistry.str_to_type: the values a run of the loop can return, the
\* dictionary's order being any; falling off the loop returns None
RegistryStrToType(convs, name) ==
    LET found == {k \in DOMAIN convs : TypeName(convs[k].type) = name}
    IN  IF found = {} THEN {Returned(None)}
        ELSE {Returned(TypeV(convs[k].type)) : k \in found}

\* the converter.add(...) statements of the module, in order (lines 94-209)
ModuleAdds ==
    <<"StringConverter", "IntConverter", "BoolConverter", "FloatConverter",
      "DateConverter", "ObjectConverter">>

RECURSIVE AddAll(_, _, _)
AddAll(convs, classes, conv) ==
    IF classes = <<>> THEN convs
    ELSE AddAll(RegistryAdd(convs, classes[1], conv), Tail(classes), conv)

\* the registry `converter` once the module is loaded (lines 82-209)
ModuleRegistry(conv) == AddAll(NoConverters, ModuleAdds, conv)

----------------------------------------------------------------------------
(* format_price (lines 211-299), as pure steps                             *)

\* value % 1 != 0
HasRemainder(v) == v.n % Pow10(v.e) # 0

\* str(int(abs(value)))
IntPartText(v) == NatStr(Abs(v.n) \div Pow10(v.e))

\* lines 235-238: the flags after the pt_BR patch
Patched(opt) ==
    IF opt.name = "pt_BR"
    THEN [opt EXCEPT !.p_cs_precedes = 1, !.n_cs_precedes = 1,
                     !.p_sep_by_space = 0, !.n_sep_by_space = 0]
    ELSE opt

\* lines 241-242
FracDigits(opt) == IF opt.frac_digits = 127 THEN 2 ELSE opt.frac_digits

\* variant: zero takes the positive set
SelectSetNonNegative(v, opt) ==
    IF v.n >= 0
    THEN [cs_precedes |-> opt.p_cs_precedes, sep_by_space |-> opt.p_sep_by_space,
          sign |-> opt.positive_sign]
    ELSE [cs_precedes |-> opt.n_cs_precedes, sep_by_space |-> opt.n_sep_by_space,
          sign |-> opt.negative_sign]

\* lines 245-252
SelectSet(v, opt) ==
    IF v.n > 0
    THEN [cs_precedes |-> opt.p_cs_precedes, sep_by_space |-> opt.p_sep_by_space,
          sign |-> opt.positive_sign]
    ELSE [cs_precedes |-> opt.n_cs_precedes, sep_by_space |-> opt.n_sep_by_space,
          sign |-> opt.negative_sign]

RECURSIVE Reverse(_)
Reverse(s) == IF s = <<>> THEN <<>> ELSE Reverse(Tail(s)) \o <<s[1]>>

Front(s) == SubSeq(s, 1, Len(s) - 1)

Last(s) == s[Len(s)]

\* variant: a 0 entry is taken as a size
NextGroupNoReuse(g, last) == last

\* lines 276-279: the group size after popping `last`
NextGroup(g, last) == IF last # 0 THEN last ELSE g

\* lines 284-287: the text appended for the fraction
DecimalPart(v, opt, fd) ==
    IF HasRemainder(v) THEN opt.mon_decimal_point \o LastN(FormatF(v, fd), fd)
    ELSE <<>>

\* variant: the symbol flag is ignored
WithSymbolAlways(text, currency_symbol, sym, sep, precedes) ==
    IF currency_symbol # <<>> THEN
        LET space == IF sep # 0 THEN <<" ">> ELSE <<>>
        IN  IF precedes # 0 THEN currency_symbol \o space \o text
            ELSE text \o space \o currency_symbol
    ELSE text

\* lines 289-299
WithSymbol(text, currency_symbol, sym, sep, precedes) ==
    IF currency_symbol # <<>> /\ sym THEN
        LET space == IF sep # 0 THEN <<" ">> ELSE <<>>
        IN  IF precedes # 0 THEN currency_symbol \o space \o text
            ELSE text \o space \o currency_symbol
    ELSE text

----------------------------------------------------------------------------
(* Inputs                                                                  *)

MaxTextLen == 4

FloatAlphabet == {"1", "5", ",", ".", "-"}

\* longer texts with both separators
SampleTexts ==
    {<<"1", ".", "2", ".", "3">>,
     <<"1", ".", "2", "3", "4", ",", "5", "6">>,
     <<"1", ",", "2", "3", "4", ".", "5", "6">>,
     <<"1", ",", "2", ",", "3", ".", "5">>}

FloatTexts == UNION {[1..k -> FloatAlphabet] : k \in 0..MaxTextLen} \cup SampleTexts

IntSamples == {0, 7, -7, 999, 1000, -1000, 1234, -1234, 123456, 1234567, -1234567}

AsStringValues ==
    {IntV(n) : n \in IntSamples}
    \cup {BoolV(TRUE), BoolV(FALSE), StrV(<<"a", "b">>), StrV(<<>>),
          FloatV(12345, 1), FloatV(-5, 1), DateV(2005, 3, 9), ObjV(1), None}

FromStringTexts ==
    {<<>>, <<"1", "2">>, <<"-", "7">>, <<"1", ",", "0", "0", "0">>, <<"1", ".", "5">>,
     <<"t", "r", "u", "e">>, <<"F", "a", "l", "s", "e">>, <<"0">>}

\* kinds a caller may pass: the registered ones and one that never is
CallKinds == Kinds \cup {"long"}

Names == {TypeName(k) : k \in Kinds} \cup {<<"l", "o", "n", "g">>, <<>>, <<"I", "n", "t">>}

PriceValues ==
    {FloatV(0, 0), FloatV(5, 0), FloatV(-5, 0), FloatV(12345, 1), FloatV(-12345, 1),
     FloatV(5, 1), FloatV(-25, 2), FloatV(123456725, 2), FloatV(1234567, 0),
     FloatV(-1234567, 0), FloatV(1125, 3), FloatV(1999, 3)}

MonGroupings == {<<>>, <<3>>, <<3, 0>>, <<3, 2, 0>>, <<2, 0, 3>>, <<0, 2>>}

MonetaryLocales ==
    {[EnLocale EXCEPT !.name = nm, !.mon_grouping = g, !.currency_symbol = cur,
                      !.frac_digits = fd, !.positive_sign = <<"+">>,
                      !.p_cs_precedes = f[1], !.n_cs_precedes = f[2],
                      !.p_sep_by_space = f[3], !.n_sep_by_space = f[4]] :
        nm \in {"en_US", "pt_BR"}, g \in MonGroupings, cur \in {<<>>, <<"$">>},
        fd \in {0, 2, 127}, f \in [1..4 -> {0, 1}]}

----------------------------------------------------------------------------
(* State machine                                                           *)

NoCall == [op |-> "", cls |-> "", kind |-> "", data |-> None, origin |-> None]

Call(op, cls, kind, data, origin) ==
    [op |-> op, cls |-> cls, kind |-> kind, data |-> data, origin |-> origin]

PriceIdle ==
    /\ pc = "idle" /\ value = None /\ symbol = FALSE /\ frac_digits = 0
    /\ cs_precedes = 0 /\ sep_by_space = 0 /\ sign = <<>> /\ groups = <<>>
    /\ group = 0 /\ intparts = <<>> /\ intpart = <<>> /\ retval = <<>>

RegistryIdle == call = NoCall /\ result = Returned(None) /\ invoked = <<>>

\* a fresh ConverterRegistry() (line 44) under the user's locale (line 37)
InitRegistry ==
    /\ lc \in NumericLocales
    /\ converters = NoConverters
    /\ RegistryIdle /\ PriceIdle

\* the module loaded under the user's numeric conventions
InitFloat ==
    /\ lc \in NumericLocales
    /\ converters = ModuleRegistry(lc)
    /\ RegistryIdle /\ PriceIdle

\* the module loaded under the user's monetary conventions
InitPrice ==
    /\ lc \in MonetaryLocales
    /\ converters = ModuleRegistry(lc)
    /\ RegistryIdle /\ PriceIdle

Init == InitRegistry

\* no call is in progress: the caller has taken the last outcome
Idle == call = NoCall

\* registry.add(cls)
Add(cls) ==
    /\ Idle
    /\ converters' = RegistryAdd(converters, cls, lc)
    /\ call' = Call("add", cls, ConverterType(cls), None, None)
    /\ result' = Returned(None)
    /\ invoked' = <<>>
    /\ UNCHANGED <<lc, priceVars>>

\* registry.as_string(kind, data)
AsStringCall(kind, data) ==
    LET r == RegistryAsString(converters, kind, data, lc)
    IN  /\ Idle
        /\ call' = Call("as_string", "", kind, data, None)
        /\ result' = r.out
        /\ invoked' = r.invoked
        /\ UNCHANGED <<lc, converters, priceVars>>

\* the effect of registry.from_string(kind, data); origin is the value whose
\* text data is, when the text comes from as_string
DoFromString(kind, data, origin) ==
    LET r == RegistryFromString(converters, kind, data)
    IN  /\ call' = Call("from_string", "", kind, data, origin)
        /\ result' = r.out
        /\ invoked' = r.invoked
        /\ UNCHANGED <<lc, converters, priceVars>>

\* registry.from_string(kind, registry.as_string(kind, v)): the text the last
\* as_string call returned is parsed back
RoundTrip ==
    /\ call.op = "as_string"
    /\ call.kind # "date"
    /\ result.status = "returned"
    /\ result.val.type = "str"
    /\ DoFromString(call.kind, result.val, call.data)

\* registry.from_string(kind, text)
FromStringCall(kind, text) == Idle /\ DoFromString(kind, StrV(text), None)

\* registry.str_to_type(name)
StrToTypeCall(name) ==
    /\ Idle
    /\ result' \in RegistryStrToType(converters, name)
    /\ call' = Call("str_to_type", "", "", StrV(name), None)
    /\ invoked' = <<>>
    /\ UNCHANGED <<lc, converters, priceVars>>

\* the caller takes the outcome of the last registry call
Return ==
    /\ ~Idle
    /\ call' = NoCall
    /\ result' = Returned(None)
    /\ invoked' = <<>>
    /\ UNCHANGED <<lc, converters, priceVars>>

\* format_price(v, sym), lines 220-263
FormatPrice(v, sym) ==
    LET opt == Patched(lc)
        sel == SelectSet(v, opt)
        rev == Reverse(opt.mon_grouping)
    IN  /\ pc \in {"idle", "done"}
        /\ value' = v
        /\ symbol' = sym
        /\ frac_digits' = FracDigits(opt)
        /\ cs_precedes' = sel.cs_precedes
        /\ sep_by_space' = sel.sep_by_space
        /\ sign' = sel.sign
        /\ groups' = IF rev # <<>> THEN Front(rev) ELSE rev
        /\ group' = IF rev # <<>> THEN Last(rev) ELSE 3
        /\ intparts' = <<>>
        /\ intpart' = IntPartText(v)
        /\ retval' = <<>>
        /\ pc' = "loop"
        /\ UNCHANGED <<lc, regVars>>

\* one iteration of the while loop, lines 265-279
GroupStep ==
    /\ pc = "loop"
    /\ intpart # <<>>
    /\ intparts' = <<LastN(intpart, group)>> \o intparts
    /\ intpart' = DropLastN(intpart, group)
    /\ IF groups = <<>> THEN UNCHANGED <<groups, group>>
       ELSE /\ groups' = Front(groups)
            /\ group' = NextGroup(group, Last(groups))
    /\ UNCHANGED <<lc, regVars, pc, value, symbol, frac_digits, cs_precedes,
                   sep_by_space, sign, retval>>

\* the break at line 267 and lines 281-287
BuildNumber ==
    /\ pc = "loop"
    /\ intpart = <<>>
    /\ retval' = sign \o Join(lc.mon_thousands_sep, intparts)
                      \o DecimalPart(value, lc, frac_digits)
    /\ pc' = "symbol"
    /\ UNCHANGED <<lc, regVars, value, symbol, frac_digits, cs_precedes,
                   sep_by_space, sign, groups, group, intparts, intpart>>

\* lines 289-299
PlaceSymbol ==
    /\ pc = "symbol"
    /\ retval' = WithSymbol(retval, lc.currency_symbol, symbol, sep_by_space, cs_precedes)
    /\ pc' = "done"
    /\ UNCHANGED <<lc, regVars, value, symbol, frac_digits, cs_precedes,
                   sep_by_space, sign, groups, group, intparts, intpart>>

NextRegistry ==
    \/ \E cls \in ConverterClasses : Add(cls)
    \/ \E k \in CallKinds, v \in AsStringValues : AsStringCall(k, v)
    \/ \E k \in CallKinds \ {"date"}, t \in FromStringTexts : FromStringCall(k, t)
    \/ RoundTrip
    \/ \E name \in Names : StrToTypeCall(name)
    \/ Return

NextFloat ==
    \/ \E t \in FloatTexts : FromStringCall("float", t)
    \/ Return

NextPrice ==
    \/ \E v \in PriceValues, sym \in BOOLEAN : FormatPrice(v, sym)
    \/ GroupStep
    \/ BuildNumber
    \/ PlaceSymbol

Next == NextRegistry \/ NextPrice

Spec == Init /\ [][Next]_vars

SpecRegistry == InitRegistry /\ [][NextRegistry]_vars

SpecFloat == InitFloat /\ [][NextFloat]_vars

SpecPrice == InitPrice /\ [][NextPrice]_vars

----------------------------------------------------------------------------
(* Properties                                                              *)

\* the last call was registry.as_string for a registered kind whose converter
\* defines as_string
AsStringOfConverter ==
    /\ call.op = "as_string"
    /\ call.kind \in DOMAIN converters
    /\ converters[call.kind].as_string

AsStringDelegated ==
    /\ result = ConverterAsString(converters[call.kind], call.data, lc)
    /\ invoked = <<<<converters[call.kind].cls, "as_string">>>>

AsStringRefused ==
    /\ result.status = "raised"
    /\ result.exc = "AssertionError"
    /\ result.exc # ValidationError
    /\ invoked = <<>>

\* C1 as stated: as_string of a value whose runtime kind differs from the
\* registered kind fails with an assertion failure (not a ValidationError)
\* without invoking the converter, and a value of the registered kind gets
\* exactly what the converter's as_string returns.
C1_KindEquality ==
    AsStringOfConverter =>
        IF call.data.type = call.kind THEN AsStringDelegated ELSE AsStringRefused

\* C1 amended: the check is isinstance, so a Boolean value counts as an
\* Integer: values that are instances of the registered kind are delegated,
\* all others are refused by the assertion and the converter is not invoked.
C1_AsStringIsInstance ==
    AsStringOfConverter =>
        IF \/ call.data.type = call.kind
           \/ (call.data.type = "bool" /\ call.kind = "int")
        THEN AsStringDelegated
        ELSE AsStringRefused

C1_Witness ==
    /\ AsStringOfConverter
    /\ call.kind = "int"
    /\ call.data = StrV(<<"a", "b">>)
    /\ AsStringRefused

\* the last call was converter.from_string(float, text)
FloatParse == call.op = "from_string" /\ call.kind = "float" /\ call.data.type = "str"

\* the separators FloatConverter works with (an empty thousands separator
\* is taken as ".")
DecSep == converters["float"].locale_dictionary.decimal_point[1]

ThSep ==
    IF converters["float"].locale_dictionary.thousands_sep = <<>> THEN "."
    ELSE converters["float"].locale_dictionary.thousands_sep[1]

Positions(text, c) == {i \in 1..Len(text) : text[i] = c}

FailsValidation ==
    /\ result.status = "raised"
    /\ result.exc = ValidationError
    /\ result.val = None

\* C2: a text with more than one decimal separator fails with ValidationError
\* and yields no value, in every locale snapshot.
C2_MultipleDecimalSeparators ==
    (FloatParse /\ Cardinality(Positions(call.data.s, DecSep)) > 1) => FailsValidation

C2_Witness ==
    /\ FloatParse
    /\ call.data.s = <<"1", ".", "2", ".", "3">>
    /\ converters["float"].locale_dictionary.thousands_sep = <<>>
    /\ DecSep = "."
    /\ FailsValidation

\* some thousands separator lies to the right of the first decimal separator
ThAfterDec(text) ==
    \E i \in Positions(text, ThSep), j \in Positions(text, DecSep) :
        /\ \A k \in Positions(text, DecSep) : j <= k
        /\ j < i

\* C3: when both separators occur and a thousands separator lies to the right
\* of the first decimal separator the parse fails with ValidationError; when
\* every thousands separator lies to its left no ordering error is raised.
C3_SeparatorOrder ==
    FloatParse =>
        /\ ThAfterDec(call.data.s) => FailsValidation
        /\ ~ThAfterDec(call.data.s) => result.msg # MsgOrder

C3_Witness ==
    /\ FloatParse
    /\ call.data.s = <<"1", ".", "2", "3", "4", ",", "5", "6">>
    /\ ThSep = "," /\ DecSep = "."
    /\ FailsValidation
    /\ result.msg = MsgOrder

\* digits and thousands separators, then at most one "." and digits
IsGroupedText(text) ==
    \E k \in 0..Len(text) :
        /\ \A i \in 1..k : IsDigit(text[i]) \/ text[i] = ","
        /\ k < Len(text) => text[k + 1] = "."
        /\ \A i \in (k + 2)..Len(text) : IsDigit(text[i])

\* C4: with thousands "," and decimal ".", a grouped text yields the number its
\* digits denote with the separators removed, and fails with ValidationError
\* when what is left is not a number.
C4_GroupedInput ==
    (FloatParse /\ ThSep = "," /\ DecSep = "." /\ IsGroupedText(call.data.s)) =>
        LET text   == call.data.s
            digits == SelectSeq(text, IsDigit)
            dots   == Positions(text, ".")
            nfrac  == IF dots = {} THEN 0 ELSE Len(text) - (CHOOSE i \in dots : TRUE)
        IN  IF digits # <<>>
            THEN result = Returned(FloatV(DigitsVal(digits), nfrac))
            ELSE FailsValidation

C4_Witness ==
    /\ FloatParse
    /\ ThSep = "," /\ DecSep = "."
    /\ call.data.s = <<"1", ",", "2", "3", "4", ".", "5", "6">>
    /\ result = Returned(FloatV(123456, 2))

\* the last call parsed back the text as_string gave for an integer
IntRoundTrip ==
    /\ call.op = "from_string"
    /\ call.kind = "int"
    /\ call.origin.type = "int"

\* C5 as stated: from_string(Integer, as_string(Integer, n)) = n for every
\* integer n.
C5_RoundTripAlways == IntRoundTrip => result = Returned(call.origin)

\* C5 amended: the round trip gives n back when the formatted text holds no
\* thousands separator (the locale groups nothing, or n is too short to be
\* grouped); when it holds one, the plain integer parse fails with
\* ValidationError.
C5_RoundTripUngrouped ==
    IntRoundTrip =>
        IF \A i \in 1..Len(call.data.s) : IsDigit(call.data.s[i]) \/ call.data.s[i] = "-"
        THEN result = Returned(call.origin)
        ELSE FailsValidation

C5_Witness ==
    /\ IntRoundTrip
    /\ call.origin = IntV(-1234567)
    /\ lc.grouping = <<>>
    /\ result = Returned(call.origin)

\* the size the pattern gives the k-th group from the right: the k-th entry, a
\* 0 or a position past the end standing for the last non-zero entry before it;
\* 3 for an empty pattern; -1 when no non-zero entry precedes (a leading 0)
PatternSize(pattern, k) ==
    LET nz == {i \in 1..Min(k, Len(pattern)) : pattern[i] # 0}
    IN  IF pattern = <<>> THEN 3
        ELSE IF nz = {} THEN -1
        ELSE pattern[CHOOSE i \in nz : \A j \in nz : j <= i]

\* the grouped integer text, after the sign
GroupedText == Join(lc.mon_thousands_sep, intparts)

\* C6: the loop of format_price consumes a non-empty group at each step (so it
\* ends), the groups are the digits of int(abs(value)) in order, each group but
\* the leftmost has the size the pattern gives its position, the leftmost holds
\* the digits that remain, and the groups are joined with the monetary
\* thousands separator.
C6_Grouping ==
    pc # "idle" =>
        /\ intpart \o Concat(intparts) = NatStr(Abs(value.n) \div Pow10(value.e))
        /\ \A i \in 1..Len(intparts) : intparts[i] # <<>>
        /\ pc \in {"symbol", "done"} =>
            /\ intpart = <<>>
            /\ \A k \in 1..Len(intparts) :
                LET size == PatternSize(lc.mon_grouping, k)
                    part == intparts[Len(intparts) + 1 - k]
                IN  size # -1 =>
                        IF k < Len(intparts) THEN Len(part) = size ELSE Len(part) <= size
        /\ pc = "symbol" =>
            SubSeq(retval, Len(sign) + 1, Len(sign) + Len(GroupedText)) = GroupedText

C6_Witness ==
    /\ pc = "done"
    /\ value = FloatV(12345, 1)
    /\ lc.mon_grouping = <<3, 0>>
    /\ intparts = <<<<"1">>, <<"2", "3", "4">>>>

\* C7: a value > 0 is formatted with the positive sign, precedence and spacing
\* (as patched for pt_BR), every other value, zero included, with the negative
\* ones, and the selected sign starts the number text.
C7_SignSelection ==
    pc # "idle" =>
        LET patch == lc.name = "pt_BR"
            p_cs  == IF patch THEN 1 ELSE lc.p_cs_precedes
            n_cs  == IF patch THEN 1 ELSE lc.n_cs_precedes
            p_sep == IF patch THEN 0 ELSE lc.p_sep_by_space
            n_sep == IF patch THEN 0 ELSE lc.n_sep_by_space
        IN  /\ value.n > 0 =>
                /\ sign = lc.positive_sign
                /\ cs_precedes = p_cs
                /\ sep_by_space = p_sep
            /\ value.n <= 0 =>
                /\ sign = lc.negative_sign
                /\ cs_precedes = n_cs
                /\ sep_by_space = n_sep
            /\ pc = "symbol" => SubSeq(retval, 1, Len(sign)) = sign

C7_Witness ==
    /\ pc = "symbol"
    /\ value = FloatV(0, 0)
    /\ lc.positive_sign # lc.negative_sign
    /\ retval = <<"-", "0">>

\* C8: the number text is sign and grouped digits, followed, exactly when the
\* value has a non-integer remainder, by the decimal separator and exactly
\* frac_digits digits of the value rounded to that many places (frac_digits
\* being 2 when the locale reports 127).
C8_FractionDigits ==
    pc = "symbol" =>
        LET base == sign \o GroupedText
            fd   == IF lc.frac_digits = 127 THEN 2 ELSE lc.frac_digits
            text == FormatF(value, fd)
            frac == SubSeq(text, Len(text) - fd + 1, Len(text))
        IN  /\ frac_digits = fd
            /\ IF value.n % Pow10(value.e) # 0
               THEN retval = base \o lc.mon_decimal_point \o frac
               ELSE retval = base

\* what C8 holds for: every digit count but 0
C8_FractionDigitsNonZero == (pc = "symbol" /\ frac_digits # 0) => C8_FractionDigits

\* C9: the symbol is placed only when requested and non-empty, before the
\* number when the selected precedes flag is set and after it otherwise, with
\* one space between when the selected sep-by-space flag is set; otherwise the
\* number text is returned as it is.
C9_SymbolPlacement ==
    [][pc = "symbol" =>
        /\ pc' = "done"
        /\ retval' =
            IF symbol /\ lc.currency_symbol # <<>>
            THEN IF cs_precedes = 1
                 THEN IF sep_by_space = 1 THEN lc.currency_symbol \o <<" ">> \o retval
                      ELSE lc.currency_symbol \o retval
                 ELSE IF sep_by_space = 1 THEN retval \o <<" ">> \o lc.currency_symbol
                      ELSE retval \o lc.currency_symbol
            ELSE retval]_vars

C9_Witness ==
    /\ pc = "done"
    /\ symbol
    /\ lc.currency_symbol = <<"$">>
    /\ cs_precedes = 0
    /\ sep_by_space = 1
    /\ value = FloatV(-12345, 1)
    /\ SubSeq(retval, Len(retval) - 1, Len(retval)) = <<" ", "$">>

\* C10: str_to_type returns (never raises): the tag of the registered kind
\* whose display name is the argument, None when there is none; and the call
\* leaves the registry as it was.
C10_StrToType ==
    /\ [](call.op = "str_to_type" =>
            /\ result.status = "returned"
            /\ \A k \in DOMAIN converters :
                TypeName(k) = call.data.s => result.val = TypeV(k)
            /\ (\A k \in DOMAIN converters : TypeName(k) # call.data.s) =>
                result.val = None)
    /\ [][call'.op = "str_to_type" => converters' = converters]_vars

C10_Witness ==
    /\ call.op = "str_to_type"
    /\ call.data.s = <<"l", "o", "n", "g">>
    /\ DOMAIN converters = Kinds
    /\ result = Returned(None)

----------------------------------------------------------------------------
(* Registration under a locale that changes between registrations          *)

\* the module body, lines 82-209: `converter` is created and the six
\* converters are added, in one import
LoadModule ==
    /\ Idle
    /\ converters = NoConverters
    /\ converters' = ModuleRegistry(lc)
    /\ call' = Call("import", "", "", None, None)
    /\ result' = Returned(None)
    /\ invoked' = <<>>
    /\ UNCHANGED <<lc, priceVars>>

\* locale.setlocale(...) by the application (as line 37 does at import):
\* converters already constructed keep the snapshot they took
SetLocale(l) ==
    /\ Idle
    /\ l # lc
    /\ lc' = l
    /\ UNCHANGED <<regVars, priceVars>>

\* a converter instance, as a value: an instance of class c.cls
InstanceV(c) == Val("instance", 0, 0, <<>>, c.cls)

\* a list, as the collection of its items (a dictionary's order is any)
ListV(items) ==
    [type |-> "list", n |-> 0, e |-> 0, s |-> <<>>, t |-> "", items |-> items]

\* ConverterRegistry.get_supported_types: self._converters.values()
RegistryGetSupportedTypes(convs) ==
    ListV({InstanceV(convs[k]) : k \in DOMAIN convs})

\* ConverterRegistry.get_supported_type_names
RegistryGetSupportedTypeNames(convs) ==
    ListV({StrV(TypeName(convs[k].type)) : k \in DOMAIN convs})

\* registry.get_supported_types()
GetSupportedTypesCall ==
    /\ Idle
    /\ call' = Call("get_supported_types", "", "", None, None)
    /\ result' = Returned(RegistryGetSupportedTypes(converters))
    /\ invoked' = <<>>
    /\ UNCHANGED <<lc, converters, priceVars>>

\* registry.get_supported_type_names()
GetSupportedTypeNamesCall ==
    /\ Idle
    /\ call' = Call("get_supported_type_names", "", "", None, None)
    /\ result' = Returned(RegistryGetSupportedTypeNames(converters))
    /\ invoked' = <<>>
    /\ UNCHANGED <<lc, converters, priceVars>>

NextAdd ==
    \/ LoadModule
    \/ \E cls \in ConverterClasses : Add(cls)
    \/ \E l \in NumericLocales : SetLocale(l)
    \/ GetSupportedTypesCall
    \/ GetSupportedTypeNamesCall
    \/ Return

SpecAdd == InitRegistry /\ [][NextAdd]_vars

\* C11: the registry holds one converter per kind tag, each under its own
\* tag; add never raises, leaves under the converter's tag the instance just
\* constructed (replacing the one that was there), registers no other kind and
\* leaves the other entries as they were; once the module is loaded the
\* registered kinds are exactly the six.
C11_OnePerKind ==
    /\ [](/\ \A k \in DOMAIN converters : converters[k].type = k
          /\ call.op = "add" =>
                /\ result.status = "returned"
                /\ call.kind \in DOMAIN converters
                /\ converters[call.kind] = New(call.cls, lc)
          /\ call.op = "import" =>
                DOMAIN converters = {"str", "int", "bool", "float", "date", "object"})
    /\ [][(call'.op = "add" /\ call' # call) =>
            /\ DOMAIN converters' = DOMAIN converters \cup {call'.kind}
            /\ \A k \in DOMAIN converters \ {call'.kind} : converters'[k] = converters[k]]_vars

\* FloatConverter added again after the locale changed: the entry made at
\* import (like the date entry, still with the old format) is replaced
C11_Witness ==
    /\ call.op = "add"
    /\ call.cls = "FloatConverter"
    /\ DOMAIN converters = Kinds
    /\ converters["date"].format # lc.d_fmt
    /\ converters["float"].locale_dictionary = lc
    /\ converters["float"].locale_dictionary.decimal_point # CLocale.decimal_point

\* C12: get_supported_types gives the tags of the registered kinds, one per
\* kind and nothing else, and get_supported_type_names the display names of
\* those same kinds.
C12_SupportedTypes ==
    /\ call.op = "get_supported_types" =>
        /\ result.status = "returned"
        /\ result.val.items = {TypeV(k) : k \in DOMAIN converters}
    /\ call.op = "get_supported_type_names" =>
        /\ result.status = "returned"
        /\ result.val.items = {StrV(TypeName(k)) : k \in DOMAIN converters}

\* what the code does give: the names of the registered kinds, and for the
\* types the registered converter instances
C12_NamesAndInstances ==
    /\ call.op = "get_supported_types" =>
        result.val.items = {InstanceV(converters[k]) : k \in DOMAIN converters}
    /\ call.op = "get_supported_type_names" =>
        result.val.items = {StrV(TypeName(k)) : k \in DOMAIN converters}

\* digits, one decimal separator, digits: a decimal text with no grouping
IsPlainDecimal(text) ==
    \E k \in 2..(Len(text) - 1) :
        /\ text[k] = DecSep
        /\ \A i \in 1..Len(text) : i # k => IsDigit(text[i])

\* C13: an ungrouped decimal text parses to the number with its integer and
\* fractional digits in every locale snapshot, the one with an empty thousands
\* separator and decimal "." included ("1.5" gives 1.5).
C13_PlainDecimal ==
    (FloatParse /\ IsPlainDecimal(call.data.s)) =>
        LET text == call.data.s
            k    == CHOOSE i \in 1..Len(text) : text[i] = DecSep
        IN  result = Returned(FloatV(DigitsVal(SelectSeq(text, IsDigit)), Len(text) - k))

\* what holds: the same, for snapshots whose two separators differ
C13_PlainDecimalDistinctSeparators == ThSep # DecSep => C13_PlainDecimal

\* C14: for a value with a non-integer remainder (and at least one fractional
\* digit configured; no digits is the case of C8) the integer digits and the
\* fractional digits of the number text, read as one decimal number, are
\* abs(value) rounded to frac_digits places (a tie rounded either way).
C14_OneRounding ==
    (pc = "symbol" /\ value.n % Pow10(value.e) # 0 /\ frac_digits > 0) =>
        LET fd     == frac_digits
            whole  == SubSeq(retval, 1, Len(retval) - fd - Len(lc.mon_decimal_point))
            frac   == SubSeq(retval, Len(retval) - fd + 1, Len(retval))
            shown  == DigitsVal(SelectSeq(whole, IsDigit) \o frac)
            a      == Abs(value.n)
            d      == Pow10(IF value.e > fd THEN value.e - fd ELSE 0)
            q0     == IF value.e > fd THEN a \div d ELSE a * Pow10(fd - value.e)
            r      == IF value.e > fd THEN a % d ELSE 0
        IN  /\ \A i \in 1..Len(frac) : IsDigit(frac[i])
            /\ IF 2 * r > d THEN shown = q0 + 1
               ELSE IF 2 * r < d THEN shown = q0
               ELSE shown \in {q0, q0 + 1}

\* what holds: the same, for values whose rounding leaves the integer part
C14_OneRoundingNoCarry ==
    LET fd == frac_digits
        a  == Abs(value.n)
        d  == Pow10(IF value.e > fd THEN value.e - fd ELSE 0)
        q0 == IF value.e > fd THEN a \div d ELSE a * Pow10(fd - value.e)
    IN  (pc = "symbol" /\ (q0 + 1) % Pow10(fd) # 0) => C14_OneRounding

====
